---- MODULE Spec2Model ----
(***************************************************************************)
(* Veterinary Diagnostic Simulator: the game progression engine            *)
(* (client/hooks/use-veterinary-game.ts), the IndexedDB persistence        *)
(* service (client/lib/indexeddb-service.ts) and the VeterinaryGame        *)
(* component that wires the two together.                                  *)
(*                                                                         *)
(* The engine is a React hook: gameState is the hook's state with every    *)
(* queued update applied, rendered is the snapshot of it that the          *)
(* callbacks of the last render closed over.  Code that reads              *)
(* `gameState.x` reads rendered; code inside `setGameState(prev => ...)`   *)
(* reads gameState.                                                        *)
(***************************************************************************)
EXTENDS Integers, Sequences, FiniteSets, TLC

VARIABLES
  gameState,     \* useVeterinaryGame: the hook's state, queued updates applied
  rendered,      \* the gameState the callbacks of the last render closed over
  pendingTests,  \* runDiagnosticTest calls suspended at their await: test and case held
  unrendered,    \* state updates queued since the last render
  lastOp,        \* the operation that took the last step (for the properties)
  db,            \* IndexedDB: the committed content of the three object stores
  calls,         \* service calls in flight, one transaction each, oldest first
  hist,          \* per case id, the scores of the resolved markCaseCompleted calls
  accepted,      \* per case id, markCaseCompleted calls issued and not rejected
  overlapped,    \* case ids that had two markCaseCompleted calls in flight at once
  sessionSeq,    \* session ids generated so far (each id is generated once)
  conn,          \* IndexedDBService.db: 0 for null, else the k-th connection opened
  opens,         \* indexedDB.open requests made so far
  supported,     \* window.indexedDB is there
  result,        \* what a read call that settled gave its caller, until the next call
  finalized,     \* the last submitted play-through: what the engine and the learner fixed
  currentScreen, \* VeterinaryGame: the screen shown
  selectedCase,  \* VeterinaryGame: the case picked
  formDiagnosis, \* VeterinaryGame: its own selectedDiagnosis state
  started,       \* cases started so far in the application
  initialized    \* VeterinaryGame: initializeApp is over, the screens are shown

engineVars == <<gameState, rendered, pendingTests, unrendered>>
svcVars == <<conn, opens, supported>>
storeVars == <<db, calls, hist, accepted, overlapped, sessionSeq, svcVars, result>>
appVars == <<finalized, currentScreen, selectedCase, formDiagnosis, started, initialized>>
vars == <<gameState, rendered, pendingTests, unrendered, lastOp,
          db, calls, hist, accepted, overlapped, sessionSeq,
          conn, opens, supported, result,
          finalized, currentScreen, selectedCase, formDiagnosis, started, initialized>>

Null == "null"

(* ------------------------------------------------------------------ *)
(* Static content (the bundled catalog, read-only).                    *)
(* ------------------------------------------------------------------ *)

\* Sessions stored when the read calls are explored on records of any shape.
MaxStored == 2

\* Sessions stored when getStatistics is explored.
MaxSessions == 6

\* Sessions among them that getStatistics filters out.
MaxInvalid == 1

\* indexedDB.open requests the model explores.
MaxOpens == 2

\* Longest completedTests list (plus suspended runs) the model explores.
MaxTests == 1

\* Most state updates queued between two renders (calls made in one tick).
MaxBatch == 2

\* Most service calls in flight at once.
MaxCalls == 2

\* Most markCaseCompleted calls per case id between two wipes of the store.
MaxAttempts == 2

\* Most completion handlers started in a run of the store specification.
MaxGames == 2

\* Most cases started in a run of the application.
MaxPlays == 1

\* Most runDiagnosticTest calls of one case when the test runs are explored.
MaxRuns == 2

\* Most Run Test clicks of one case when the diagnostic panel is explored.
MaxClicks == 3

\* Sessions stored beyond the StatsLimit getStatistics reads.
MaxOlder == 1

Cases ==
  { [id |-> "c1", difficulty |-> "medium", correctDiagnosis |-> "dx1",
     correctTreatments |-> <<"a", "b">>],
    [id |-> "c2", difficulty |-> "hard", correctDiagnosis |-> "dx2",
     correctTreatments |-> <<"b">>] }

CaseIds == { c.id : c \in Cases }

CaseById(id) == CHOOSE c \in Cases : c.id = id

DiagnosticTests ==
  { [id |-> "t1", cost |-> 400, timeRequired |-> 30],
    [id |-> "t2", cost |-> 700, timeRequired |-> 1000] }

TestIds == { t.id : t \in DiagnosticTests }

TestById(id) == CHOOSE t \in DiagnosticTests : t.id = id

Diagnoses == {"dx1", "dx2"}

\* Treatment lists a caller of the hook may pass (any string[]).
TreatmentLists == { <<>>, <<"x">>, <<"a">>, <<"a", "b">> }

Phases == <<"intake", "diagnosis", "treatment", "results">>

(* ------------------------------------------------------------------ *)
(* Helpers for JavaScript built-ins.                                   *)
(* ------------------------------------------------------------------ *)

Min(a, b) == IF a < b THEN a ELSE b

Max(a, b) == IF a > b THEN a ELSE b

\* Array.prototype.includes
Includes(seq, x) == \E i \in 1..Len(seq) : seq[i] = x

\* Array.prototype.indexOf, 0-based as in JavaScript (-1 when absent)
IndexOf(seq, x) ==
  IF Includes(seq, x)
  THEN (CHOOSE i \in 1..Len(seq) : seq[i] = x /\ \A j \in 1..(i - 1) : seq[j] # x) - 1
  ELSE -1

\* Array.prototype.filter(...).length
RECURSIVE FilterCount(_, _)
FilterCount(seq, keep) ==
  IF seq = <<>> THEN 0
  ELSE (IF Includes(keep, Head(seq)) THEN 1 ELSE 0) + FilterCount(Tail(seq), keep)

(* ------------------------------------------------------------------ *)
(* Game progression engine: useVeterinaryGame.                         *)
(* ------------------------------------------------------------------ *)

InitialGameState ==
  [ currentCase |-> Null, completedTests |-> <<>>, selectedDiagnosis |-> Null,
    selectedTreatments |-> <<>>, score |-> 0, timeElapsed |-> 0,
    gamePhase |-> "intake" ]

\* The object startNewCase passes to setGameState.
NewCaseStateKeepsTime(prev, c) ==
  [ currentCase |-> c, completedTests |-> <<>>, selectedDiagnosis |-> Null,
    selectedTreatments |-> <<>>, score |-> 0, timeElapsed |-> prev.timeElapsed,
    gamePhase |-> "intake" ]

NewCaseState(prev, c) ==
  [ currentCase |-> c, completedTests |-> <<>>, selectedDiagnosis |-> Null,
    selectedTreatments |-> <<>>, score |-> 0, timeElapsed |-> 0,
    gamePhase |-> "intake" ]

\* An updater that records a test once only.
TestDoneStateOnce(prev, testId) ==
  IF Includes(prev.completedTests, testId) THEN prev
  ELSE [ prev EXCEPT !.completedTests = Append(@, testId),
                     !.timeElapsed = @ + TestById(testId).timeRequired ]

\* The updater runDiagnosticTest passes to setGameState after its await.
TestDoneState(prev, testId) ==
  [ prev EXCEPT !.completedTests = Append(@, testId),
                !.timeElapsed = @ + TestById(testId).timeRequired ]

\* The updater of submitDiagnosis.
DiagnosisState(prev, diagnosis) ==
  [ prev EXCEPT !.selectedDiagnosis = diagnosis, !.gamePhase = "treatment" ]

\* totalScore as submitTreatments computes it from the state its closure holds.
TotalScoreNoClamp(seen, treatments) ==
  LET case == CaseById(seen.currentCase)
      diagnosisScore == IF seen.selectedDiagnosis = case.correctDiagnosis THEN 100 ELSE 0
      treatmentScore == FilterCount(treatments, case.correctTreatments) * 25
      timeBonus == Max(0, 100 - (seen.timeElapsed \div 10))
  IN  diagnosisScore + treatmentScore + timeBonus

\* A totalScore that takes 25 off for each treatment outside the correct set.
TotalScorePenalizes(seen, treatments) ==
  LET case == CaseById(seen.currentCase)
      diagnosisScore == IF seen.selectedDiagnosis = case.correctDiagnosis THEN 100 ELSE 0
      correct == FilterCount(treatments, case.correctTreatments)
      treatmentScore == correct * 25 - (Len(treatments) - correct) * 25
      timeBonus == Max(0, 100 - (seen.timeElapsed \div 10))
  IN  Max(0, Min(100, diagnosisScore + treatmentScore + timeBonus))

\* A totalScore whose time bonus rounds timeElapsed / 10 instead of flooring it.
TotalScoreRoundsTime(seen, treatments) ==
  LET case == CaseById(seen.currentCase)
      diagnosisScore == IF seen.selectedDiagnosis = case.correctDiagnosis THEN 100 ELSE 0
      treatmentScore == FilterCount(treatments, case.correctTreatments) * 25
      timeBonus == Max(0, 100 - ((seen.timeElapsed + 5) \div 10))
  IN  Min(100, diagnosisScore + treatmentScore + timeBonus)

TotalScore(seen, treatments) ==
  LET case == CaseById(seen.currentCase)
      diagnosisScore == IF seen.selectedDiagnosis = case.correctDiagnosis THEN 100 ELSE 0
      treatmentScore == FilterCount(treatments, case.correctTreatments) * 25
      timeBonus == Max(0, 100 - (seen.timeElapsed \div 10))
  IN  Min(100, diagnosisScore + treatmentScore + timeBonus)

\* The updater of submitTreatments.
TreatmentsState(prev, treatments, totalScore) ==
  [ prev EXCEPT !.selectedTreatments = treatments, !.score = totalScore,
                !.gamePhase = "results" ]

\* The updater of nextPhase.
NextPhaseWraps(prev) ==
  LET currentIndex == IndexOf(Phases, prev.gamePhase)
      nextIndex == (currentIndex + 1) % Len(Phases)
  IN  [ prev EXCEPT !.gamePhase = Phases[nextIndex + 1] ]

NextPhaseState(prev) ==
  LET currentIndex == IndexOf(Phases, prev.gamePhase)
      nextIndex == Min(currentIndex + 1, Len(Phases) - 1)
  IN  [ prev EXCEPT !.gamePhase = Phases[nextIndex + 1] ]

\* The operation called last and its argument, kept for the properties.
Op(name, arg) == [ op |-> name, arg |-> arg ]

\* One more update is queued behind the last render.
Queued == unrendered < MaxBatch /\ unrendered' = unrendered + 1

\* startNewCase(selectedCase)
StartNewCase(c) ==
  /\ gameState' = NewCaseState(gameState, c)
  /\ lastOp' = Op("startNewCase", c)
  /\ Queued
  /\ UNCHANGED <<rendered, pendingTests>>

\* runDiagnosticTest(test), up to its await: the guard reads the closure.
\* The model explores at most `most` results and suspended runs per case.
RunDiagnosticTestUpTo(testId, most) ==
  /\ Len(gameState.completedTests) + Len(pendingTests) < most
  /\ pendingTests' = IF rendered.currentCase = Null THEN pendingTests
                     ELSE Append(pendingTests,
                                 [ test |-> testId, case |-> rendered.currentCase ])
  /\ lastOp' = Op("runDiagnosticTest", testId)
  /\ UNCHANGED <<gameState, rendered, unrendered>>

RunDiagnosticTest(testId) == RunDiagnosticTestUpTo(testId, MaxTests)

\* runDiagnosticTest(test), resumed after the await: the functional update.
RunDiagnosticTestResume ==
  /\ pendingTests # <<>>
  /\ gameState' = TestDoneState(gameState, Head(pendingTests).test)
  /\ pendingTests' = Tail(pendingTests)
  /\ lastOp' = Op("testDone", Head(pendingTests).case)
  /\ Queued
  /\ UNCHANGED rendered

\* submitDiagnosis(diagnosis)
SubmitDiagnosis(diagnosis) ==
  /\ gameState' = DiagnosisState(gameState, diagnosis)
  /\ lastOp' = Op("submitDiagnosis", diagnosis)
  /\ Queued
  /\ UNCHANGED <<rendered, pendingTests>>

\* submitTreatments(treatments)
SubmitTreatments(treatments) ==
  /\ gameState' = IF rendered.currentCase = Null THEN gameState
                  ELSE TreatmentsState(gameState, treatments,
                                       TotalScore(rendered, treatments))
  /\ lastOp' = Op("submitTreatments", treatments)
  /\ Queued
  /\ UNCHANGED <<rendered, pendingTests>>

\* nextPhase()
NextPhase ==
  /\ gameState' = NextPhaseState(gameState)
  /\ lastOp' = Op("nextPhase", Null)
  /\ Queued
  /\ UNCHANGED <<rendered, pendingTests>>

\* React re-renders the hook: the callbacks close over the current state.
Render ==
  /\ unrendered > 0
  /\ rendered' = gameState
  /\ unrendered' = 0
  /\ lastOp' = Op("render", Null)
  /\ UNCHANGED <<gameState, pendingTests>>

(* ------------------------------------------------------------------ *)
(* Persistent store: IndexedDBService over IndexedDB.                  *)
(*                                                                     *)
(* Every service call opens one transaction.  IndexedDB starts a       *)
(* transaction once no older live transaction conflicts with it        *)
(* (overlapping scope, one of them readwrite), runs its requests in    *)
(* the order placed, aborts it (rolling back its writes) when a        *)
(* request fails and the error is not handled by preventDefault, and   *)
(* commits it when its last request is done.  The writes of a          *)
(* transaction are invisible outside it until then: db holds the       *)
(* committed content only.  The service is taken to be open (init      *)
(* succeeded); timestamps (lastPlayed, completionDate, startTime,      *)
(* endTime) are left out of the records.                               *)
(***********************************************************************)

StoreNames == {"userData", "gameSessions", "caseCompletion"}

EmptyDb == [ userData |-> {}, gameSessions |-> <<>>, caseCompletion |-> {} ]

Scores == {40, 100}

NoSession == [ id |-> 0 ]

NoUser == [ id |-> Null ]

\* getUserData's defaultData.
DefaultUserData ==
  [ id |-> "player1", completedCases |-> <<>>, totalScore |-> 0, gamesPlayed |-> 0,
    bestScore |-> 0, averageScore |-> [num |-> 0, den |-> 1],
    difficulty |-> [medium |-> 0, hard |-> 0] ]

\* A service call and what its caller holds across the await.
Call(op, game, caseId, score, session, user) ==
  [ op |-> op, game |-> game, caseId |-> caseId, score |-> score,
    session |-> session, user |-> user, step |-> 0, got |-> {},
    stats |-> FALSE, limit |-> 0, read |-> <<>> ]

\* The object stores a call's transaction names.
Scope(op) ==
  CASE op = "saveGameSession" -> {"gameSessions"}
    [] op = "markCaseCompleted" -> {"caseCompletion"}
    [] op = "getUserData" -> {"userData"}
    [] op = "updateUserData" -> {"userData"}
    [] op = "getGameSessions" -> {"gameSessions"}
    [] op = "getCompletedCases" -> {"caseCompletion"}
    [] op = "init" -> {}
    [] OTHER -> StoreNames

ReadOnly(op) == op \in {"getUserData", "getGameSessions", "getCompletedCases"}

Conflict(a, b) == Scope(a) \cap Scope(b) # {} /\ ~(ReadOnly(a) /\ ReadOnly(b))

\* Transactions that do not wait for one another.
TxMayRunUnordered(i) == TRUE

\* The transaction of calls[i] may run: it has been created (the call is
\* past `if (!this.db) await this.init()`) and no older live transaction
\* conflicts.
TxMayRun(i) ==
  /\ calls[i].step >= 0
  /\ \A j \in 1..(i - 1) : calls[j].step >= 0 => ~Conflict(calls[j].op, calls[i].op)

\* store.get(caseId) on caseCompletion: the record, or nothing.
GetCompletion(store, caseId) == { r \in store : r.caseId = caseId }

\* store.put(record) on caseCompletion (keyPath caseId).
PutCompletion(store, record) ==
  { r \in store : r.caseId # record.caseId } \cup {record}

\* caseData of markCaseCompleted, from the result of its get.
CaseDataLastScore(existing, caseId, score, difficulty) ==
  IF existing = {}
  THEN [ caseId |-> caseId, completed |-> TRUE, bestScore |-> score, attempts |-> 1,
         difficulty |-> difficulty, scores |-> <<score>> ]
  ELSE LET e == CHOOSE r \in existing : TRUE
       IN  [ caseId |-> caseId, completed |-> TRUE, bestScore |-> score,
             attempts |-> e.attempts + 1, difficulty |-> difficulty,
             scores |-> Append(e.scores, score) ]

CaseData(existing, caseId, score, difficulty) ==
  IF existing = {}
  THEN [ caseId |-> caseId, completed |-> TRUE, bestScore |-> score, attempts |-> 1,
         difficulty |-> difficulty, scores |-> <<score>> ]
  ELSE LET e == CHOOSE r \in existing : TRUE
       IN  [ caseId |-> caseId, completed |-> TRUE, bestScore |-> Max(e.bestScore, score),
             attempts |-> e.attempts + 1, difficulty |-> difficulty,
             scores |-> Append(e.scores, score) ]

(* Reads.  A stored session is whatever object saveGameSession was given:  *)
(* caseId and difficulty are Null when the property is missing, scoreType *)
(* is `typeof session.score` ("NaN" for a number that is NaN; score is     *)
(* meaningful for "number" only), startTime is -1 when the record has no   *)
(* valid Date there.  keyPath 'id' keeps a record without id out of the    *)
(* store, so every stored record has one.                                  *)

\* getGameSessions(limit = 10)
DefaultLimit == 10

\* getStatistics: this.getGameSessions(100)
StatsLimit == 100

\* getStatistics: validSessions.slice(0, 5)
RecentCount == 5

\* The 'startTime' index holds the records whose startTime is a valid key.
Indexed(session) == session.startTime >= 0

\* index.openCursor(null, 'prev'): the indexed records by descending
\* startTime, records of equal startTime by descending primary key.
\* (the k-th record is the one that k - 1 records come before)
ByStartTimeDesc(records) ==
  [ k \in 1..Cardinality(records) |->
      CHOOSE r \in records :
        Cardinality({ o \in records :
                        \/ o.startTime > r.startTime
                        \/ o.startTime = r.startTime /\ o.id > r.id }) = k - 1 ]

\* session && session.id && session.caseId && typeof session.score === 'number'
WellFormed(session) ==
  /\ session.id # 0
  /\ session.caseId # Null
  /\ session.scoreType \in {"number", "NaN"}

\* A cursor loop in which every record visited counts toward the limit.
RECURSIVE CursorLoopCountsAll(_, _, _, _)
CursorLoopCountsAll(cursor, count, limit, sessions) ==
  IF cursor # <<>> /\ count < limit
  THEN CursorLoopCountsAll(Tail(cursor), count + 1, limit,
                           IF WellFormed(Head(cursor))
                           THEN Append(sessions, Head(cursor)) ELSE sessions)
  ELSE sessions

\* `count` when request.onsuccess runs for the k-th cursor position: every
\* well-formed record before it was pushed and counted.
CountAt(cursor, k, count) ==
  count + Cardinality({ j \in 1..(k - 1) : WellFormed(cursor[j]) })

\* request.onsuccess of getGameSessions, over the cursor positions: the
\* record at a position is pushed when count < limit there and it is
\* well-formed; at count = limit the loop resolves with the sessions pushed.
CursorLoop(cursor, count, limit, sessions) ==
  LET positions == [ k \in 1..Len(cursor) |-> k ]
      pushed == SelectSeq(positions,
                          LAMBDA k : CountAt(cursor, k, count) < limit
                                     /\ WellFormed(cursor[k]))
  IN  sessions \o [ i \in 1..Len(pushed) |-> cursor[pushed[i]] ]

\* What getGameSessions(limit) resolves with on the store content given.
GetGameSessions(store, limit) ==
  CursorLoop(ByStartTimeDesc({ store[k] : k \in { j \in 1..Len(store) : Indexed(store[j]) } }),
             0, limit, <<>>)

\* The order getAll() returns the caseCompletion records in (by key).
CaseOrder == <<"c1", "c2">>

\* What getCompletedCases() resolves with:
\* filter(item => item && item.completed === true && item.caseId).map(item => item.caseId)
GetCompletedCases(store) ==
  SelectSeq(CaseOrder, LAMBDA id : \E r \in store : r.caseId = id /\ r.completed = TRUE)

\* A profile read that hands a new player one game played.
StoredUserDataCountsOne(store) ==
  IF store = {} THEN [ DefaultUserData EXCEPT !.gamesPlayed = 1 ]
  ELSE CHOOSE u \in store : TRUE

\* What getUserData() resolves with: the stored profile, or defaultData.
StoredUserData(store) ==
  IF store = {} THEN DefaultUserData ELSE CHOOSE u \in store : TRUE

\* A filter that keeps every session whose score is of type number.
ValidSessionAnyNumber(session) == session.scoreType \in {"number", "NaN"}

\* s && typeof s.score === 'number' && s.difficulty && !isNaN(s.score)
ValidSession(session) == session.scoreType = "number" /\ session.difficulty # Null

\* validSessions.reduce((sum, s) => sum + s.score, 0)
\* (the sum of sessions[lo..hi], taken by halves)
RECURSIVE SumRange(_, _, _)
SumRange(sessions, lo, hi) ==
  IF lo > hi THEN 0
  ELSE IF lo = hi THEN sessions[lo].score
  ELSE SumRange(sessions, lo, (lo + hi) \div 2)
       + SumRange(sessions, (lo + hi) \div 2 + 1, hi)

SumScores(sessions) == SumRange(sessions, 1, Len(sessions))

\* Math.max(...validSessions.map(s => s.score)), for a non-empty list
MaxScore(sessions) ==
  LET scores == { sessions[k].score : k \in 1..Len(sessions) }
  IN  CHOOSE m \in scores : \A o \in scores : o <= m

\* {} as Record<string, number>
EmptyBreakdown == [ d \in {} |-> 0 ]

\* validSessions.reduce((acc, session) => { acc[session.difficulty] = ... + 1 }, {})
\* (every session adds one under its difficulty, starting from acc)
Breakdown(sessions, acc) ==
  [ d \in DOMAIN acc \cup { sessions[k].difficulty : k \in 1..Len(sessions) } |->
      (IF d \in DOMAIN acc THEN acc[d] ELSE 0)
      + Cardinality({ k \in 1..Len(sessions) : sessions[k].difficulty = d }) ]

\* The summary of getStatistics' catch block.
ZeroStatistics ==
  [ gamesPlayed |-> 0, casesCompleted |-> 0, averageScore |-> [ num |-> 0, den |-> 1 ],
    bestScore |-> 0, difficultyBreakdown |-> EmptyBreakdown, recentSessions |-> <<>> ]

\* A summary that counts every session read as a game played.
StatisticsCountsAll(sessions, completedCases) ==
  LET validSessions == SelectSeq(sessions, ValidSession) IN
  [ gamesPlayed |-> Len(sessions),
    casesCompleted |-> Len(completedCases),
    averageScore |-> IF Len(validSessions) > 0
                     THEN [ num |-> SumScores(validSessions), den |-> Len(validSessions) ]
                     ELSE [ num |-> 0, den |-> 1 ],
    bestScore |-> IF Len(validSessions) > 0 THEN MaxScore(validSessions) ELSE 0,
    difficultyBreakdown |-> Breakdown(validSessions, EmptyBreakdown),
    recentSessions |-> SubSeq(validSessions, 1, Min(RecentCount, Len(validSessions))) ]

\* A summary whose games played are the completed cases it has read.
StatisticsCountsCases(sessions, completedCases) ==
  LET validSessions == SelectSeq(sessions, ValidSession) IN
  [ gamesPlayed |-> Len(completedCases),
    casesCompleted |-> Len(completedCases),
    averageScore |-> IF Len(validSessions) > 0
                     THEN [ num |-> SumScores(validSessions), den |-> Len(validSessions) ]
                     ELSE [ num |-> 0, den |-> 1 ],
    bestScore |-> IF Len(validSessions) > 0 THEN MaxScore(validSessions) ELSE 0,
    difficultyBreakdown |-> Breakdown(validSessions, EmptyBreakdown),
    recentSessions |-> SubSeq(validSessions, 1, Min(RecentCount, Len(validSessions))) ]

\* The summary getStatistics returns from the sessions and completed cases
\* it has read (averageScore as the fraction sum / count).
Statistics(sessions, completedCases) ==
  LET validSessions == SelectSeq(sessions, ValidSession) IN
  [ gamesPlayed |-> Len(validSessions),
    casesCompleted |-> Len(completedCases),
    averageScore |-> IF Len(validSessions) > 0
                     THEN [ num |-> SumScores(validSessions), den |-> Len(validSessions) ]
                     ELSE [ num |-> 0, den |-> 1 ],
    bestScore |-> IF Len(validSessions) > 0 THEN MaxScore(validSessions) ELSE 0,
    difficultyBreakdown |-> Breakdown(validSessions, EmptyBreakdown),
    recentSessions |-> SubSeq(validSessions, 1, Min(RecentCount, Len(validSessions))) ]

\* Nothing a read call has given its caller yet.
NoResult == [ call |-> Null, outcome |-> Null ]

\* What a read call gave its caller.
Resolved(call, value) == [ call |-> call, outcome |-> "resolved", value |-> value ]

Rejected(call) == [ call |-> call, outcome |-> "rejected" ]

\* A getStatistics that lets the failure of a read through to its caller.
StatisticsFailurePropagates(stage) == Rejected("getStatistics")

\* getStatistics' catch: a failure in any of its stages gives the zero summary.
StatisticsFailure(stage) == Resolved("getStatistics", ZeroStatistics)

\* `if (!this.db) await this.init()` at the head of every service method: with
\* no connection the call first waits for an init of its own (step -1).
Placed(c) == IF conn = 0 THEN [ c EXCEPT !.step = -1 ] ELSE c

\* init() opens the database unless window.indexedDB is missing.  The caller
\* holds no result of the call it makes until a read settles.
Placing ==
  /\ conn # 0 \/ ~supported \/ opens < MaxOpens
  /\ opens' = IF conn = 0 /\ supported THEN opens + 1 ELSE opens
  /\ result' = NoResult
  /\ UNCHANGED <<conn, supported>>

\* calls without its i-th element.
Without(i) == [ k \in 1..(Len(calls) - 1) |-> IF k < i THEN calls[k] ELSE calls[k + 1] ]

\* markCaseCompleted calls for caseId among cs.
Marks(cs, caseId) ==
  { k \in 1..Len(cs) : cs[k].op = "markCaseCompleted" /\ cs[k].caseId = caseId }

\* markCaseCompleted(caseId, score, difficulty), up to the requests it places.
CallMarkCaseCompleted(caseId, score) ==
  /\ Len(calls) < MaxCalls
  /\ accepted[caseId] < MaxAttempts
  /\ calls' = Append(calls,
                     Placed(Call("markCaseCompleted", FALSE, caseId, score, NoSession, NoUser)))
  /\ Placing
  /\ accepted' = [ accepted EXCEPT ![caseId] = @ + 1 ]
  /\ overlapped' = IF Marks(calls, caseId) # {} THEN overlapped \cup {caseId} ELSE overlapped
  /\ lastOp' = Op("markCaseCompleted", "called")
  /\ UNCHANGED <<db, hist, sessionSeq>>

\* getRequest of markCaseCompleted: onsuccess keeps the record read and places
\* the put; onerror rejects, and the transaction aborts.
MarkGet(i, ok) ==
  /\ i \in 1..Len(calls) /\ calls[i].op = "markCaseCompleted" /\ calls[i].step = 0
  /\ TxMayRun(i)
  /\ IF ok
     THEN /\ calls' = [ calls EXCEPT ![i].step = 1,
                                     ![i].got = GetCompletion(db.caseCompletion, calls[i].caseId) ]
          /\ lastOp' = Op("markCaseCompleted", "read")
          /\ UNCHANGED accepted
     ELSE /\ calls' = Without(i)
          /\ lastOp' = Op("markCaseCompleted", "rejected")
          /\ accepted' = [ accepted EXCEPT ![calls[i].caseId] = @ - 1 ]
  /\ UNCHANGED <<db, hist, overlapped, sessionSeq, svcVars, result>>

\* putRequest of markCaseCompleted: onsuccess resolves and the transaction
\* commits; onerror rejects and the transaction aborts.  A call made by
\* handleGameComplete goes on to getUserData.
MarkPut(i, ok) ==
  /\ i \in 1..Len(calls) /\ calls[i].op = "markCaseCompleted" /\ calls[i].step = 1
  /\ TxMayRun(i)
  /\ LET c == calls[i] IN
     IF ok
     THEN /\ db' = [ db EXCEPT !.caseCompletion =
                       PutCompletion(@, CaseData(c.got, c.caseId, c.score,
                                                 CaseById(c.caseId).difficulty)) ]
          /\ hist' = [ hist EXCEPT ![c.caseId] = Append(@, c.score) ]
          /\ calls' = IF c.game
                      THEN Without(i) \o
                           << Call("getUserData", TRUE, c.caseId, c.score, NoSession, NoUser) >>
                      ELSE Without(i)
          /\ lastOp' = Op("markCaseCompleted", "resolved")
          /\ UNCHANGED accepted
     ELSE /\ calls' = Without(i)
          /\ lastOp' = Op("markCaseCompleted", "rejected")
          /\ accepted' = [ accepted EXCEPT ![c.caseId] = @ - 1 ]
          /\ UNCHANGED <<db, hist>>
  /\ UNCHANGED <<overlapped, sessionSeq, svcVars, result>>

\* clearAllData(), up to the three clear requests it places.
CallClearAllData ==
  /\ Len(calls) < MaxCalls
  /\ calls' = Append(calls, Placed(Call("clearAllData", FALSE, Null, 0, NoSession, NoUser)))
  /\ Placing
  /\ lastOp' = Op("clearAllData", [ outcome |-> "called", done |-> 0 ])
  /\ UNCHANGED <<db, hist, accepted, overlapped, sessionSeq>>

\* The three clears done as three transactions of one store each.
ClearedSoFar(d, done) ==
  [ userData |-> IF done >= 1 THEN {} ELSE d.userData,
    gameSessions |-> IF done >= 2 THEN <<>> ELSE d.gameSessions,
    caseCompletion |-> IF done >= 3 THEN {} ELSE d.caseCompletion ]

\* The committed content once `done` of the three clear requests of the one
\* transaction have succeeded: nothing is committed before the last.
AfterClearRequest(d, done) == IF done = 3 THEN EmptyDb ELSE d

\* One clear request of clearAllData (userData, gameSessions, caseCompletion,
\* in the order placed).  onsuccess of the last lets Promise.all resolve and
\* the transaction commits; onerror of any rejects and the transaction aborts.
ClearRequest(i, ok) ==
  /\ i \in 1..Len(calls) /\ calls[i].op = "clearAllData"
  /\ TxMayRun(i)
  /\ LET done == calls[i].step + 1
         rest == Without(i) IN
     IF ok
     THEN /\ db' = AfterClearRequest(db, done)
          /\ IF done = 3
             THEN /\ calls' = rest
                  /\ hist' = [ id \in CaseIds |-> <<>> ]
                  /\ accepted' = [ id \in CaseIds |-> Cardinality(Marks(rest, id)) ]
                  /\ overlapped' = { id \in CaseIds : Cardinality(Marks(rest, id)) > 1 }
                  /\ lastOp' = Op("clearAllData", [ outcome |-> "resolved", done |-> done ])
             ELSE /\ calls' = [ calls EXCEPT ![i].step = done ]
                  /\ lastOp' = Op("clearAllData", [ outcome |-> "pending", done |-> done ])
                  /\ UNCHANGED <<hist, accepted, overlapped>>
     ELSE /\ calls' = rest
          /\ lastOp' = Op("clearAllData", [ outcome |-> "rejected", done |-> done - 1 ])
          /\ UNCHANGED <<db, hist, accepted, overlapped>>
  /\ UNCHANGED <<sessionSeq, svcVars, result>>

\* handleGameComplete(score, timeElapsed), up to its first await: the session
\* is built from the values the handler's closure holds and saveGameSession
\* is called.  The session id (Date.now() plus a random suffix) is fresh;
\* startTime is a Date taken from the same clock and score is a number.
HandleGameComplete(caseId, score, timeElapsed, seen, diagnosisState) ==
  /\ Len(calls) < MaxCalls
  /\ sessionSeq' = sessionSeq + 1
  /\ Placing
  /\ calls' = Append(calls, Placed(
       Call("saveGameSession", TRUE, caseId, score,
            [ id |-> sessionSeq + 1, caseId |-> caseId, score |-> score,
              scoreType |-> "number", startTime |-> sessionSeq + 1,
              timeElapsed |-> timeElapsed,
              selectedDiagnosis |-> IF seen.selectedDiagnosis # Null
                                    THEN seen.selectedDiagnosis ELSE diagnosisState,
              selectedTreatments |-> seen.selectedTreatments,
              testsPerformed |-> seen.completedTests,
              difficulty |-> CaseById(caseId).difficulty ],
            NoUser)))
  /\ UNCHANGED <<db, hist, accepted, overlapped>>

\* A store.put(session): a stored session of the same id is replaced.
PutSession(store, session) ==
  [ ok |-> TRUE,
    store |-> IF \E k \in 1..Len(store) : store[k].id = session.id
              THEN [ k \in 1..Len(store) |->
                       IF store[k].id = session.id THEN session ELSE store[k] ]
              ELSE Append(store, session) ]

\* store.add(session) on gameSessions (keyPath id): the request fails when a
\* record of that id is stored, and adds the record otherwise.
AddSession(store, session) ==
  IF \E k \in 1..Len(store) : store[k].id = session.id
  THEN [ ok |-> FALSE, store |-> store ]
  ELSE [ ok |-> TRUE, store |-> Append(store, session) ]

\* The add request of saveGameSession: onsuccess resolves, onerror rejects
\* and the transaction aborts.  handleGameComplete goes on to
\* markCaseCompleted.
SaveAdd(i, ok) ==
  /\ i \in 1..Len(calls) /\ calls[i].op = "saveGameSession"
  /\ TxMayRun(i)
  /\ LET c == calls[i]
         rest == Without(i)
         added == AddSession(db.gameSessions, c.session) IN
     IF ok /\ added.ok
     THEN /\ db' = [ db EXCEPT !.gameSessions = added.store ]
          /\ lastOp' = Op("saveGameSession", [ outcome |-> "resolved", id |-> c.session.id ])
          /\ IF c.game
             THEN /\ calls' = rest \o
                       << Call("markCaseCompleted", TRUE, c.caseId, c.score, NoSession, NoUser) >>
                  /\ accepted' = [ accepted EXCEPT ![c.caseId] = @ + 1 ]
                  /\ overlapped' = IF Marks(rest, c.caseId) # {}
                                   THEN overlapped \cup {c.caseId} ELSE overlapped
             ELSE /\ calls' = rest
                  /\ UNCHANGED <<accepted, overlapped>>
     ELSE /\ calls' = rest
          /\ lastOp' = Op("saveGameSession", [ outcome |-> "rejected", id |-> c.session.id ])
          /\ UNCHANGED <<db, accepted, overlapped>>
  /\ UNCHANGED <<hist, sessionSeq, svcVars, result>>

\* An updatedUserData that records the case id on every completion.
UpdatedUserDataAppends(userData, caseId, score) ==
  LET d == CaseById(caseId).difficulty IN
  [ userData EXCEPT
      !.gamesPlayed = @ + 1,
      !.totalScore = @ + score,
      !.bestScore = Max(@, score),
      !.averageScore = [ num |-> userData.totalScore + score,
                         den |-> userData.gamesPlayed + 1 ],
      !.difficulty = [ @ EXCEPT ![d] = @ + 1 ],
      !.completedCases = Append(@, caseId) ]

\* An updatedUserData that counts a game only for a case not completed before.
UpdatedUserDataCountsCases(userData, caseId, score) ==
  LET d == CaseById(caseId).difficulty IN
  [ userData EXCEPT
      !.gamesPlayed = IF Includes(userData.completedCases, caseId) THEN @ ELSE @ + 1,
      !.totalScore = @ + score,
      !.bestScore = Max(@, score),
      !.averageScore = [ num |-> userData.totalScore + score,
                         den |-> userData.gamesPlayed + 1 ],
      !.difficulty = [ @ EXCEPT ![d] = @ + 1 ],
      !.completedCases = IF Includes(@, caseId) THEN @ ELSE Append(@, caseId) ]

\* updatedUserData of handleGameComplete.
UpdatedUserData(userData, caseId, score) ==
  LET d == CaseById(caseId).difficulty IN
  [ userData EXCEPT
      !.gamesPlayed = @ + 1,
      !.totalScore = @ + score,
      !.bestScore = Max(@, score),
      !.averageScore = [ num |-> userData.totalScore + score,
                         den |-> userData.gamesPlayed + 1 ],
      !.difficulty = [ @ EXCEPT ![d] = @ + 1 ],
      !.completedCases = IF Includes(@, caseId) THEN @ ELSE Append(@, caseId) ]

\* A service call made on its own, or as a stage of getStatistics.
ReadCall(op, stats, limit) ==
  [ Call(op, FALSE, Null, 0, NoSession, NoUser) EXCEPT !.stats = stats, !.limit = limit ]

\* store.get('player1') of getUserData.  handleGameComplete goes on to
\* updateUserData with the updated profile, getStatistics to getGameSessions(100).
UserGet(i, ok) ==
  /\ i \in 1..Len(calls) /\ calls[i].op = "getUserData"
  /\ TxMayRun(i)
  /\ LET c == calls[i]
         userData == StoredUserData(db.userData) IN
     IF c.game
     THEN /\ IF ok
             THEN /\ calls' = Without(i) \o
                       << Call("updateUserData", TRUE, c.caseId, c.score, NoSession,
                               UpdatedUserData(userData, c.caseId, c.score)) >>
                  /\ lastOp' = Op("getUserData", "resolved")
             ELSE /\ calls' = Without(i)
                  /\ lastOp' = Op("getUserData", "rejected")
          /\ UNCHANGED result
     ELSE IF c.stats
     THEN IF ok
          THEN /\ calls' = Without(i) \o << ReadCall("getGameSessions", TRUE, StatsLimit) >>
               /\ lastOp' = Op("getStatistics", "read")
               /\ UNCHANGED result
          ELSE /\ calls' = Without(i)
               /\ lastOp' = Op("getStatistics", "caught")
               /\ result' = StatisticsFailure("getUserData")
     ELSE /\ calls' = Without(i)
          /\ lastOp' = Op("getUserData", IF ok THEN "resolved" ELSE "rejected")
          /\ result' = IF ok THEN Resolved("getUserData", userData)
                             ELSE Rejected("getUserData")
  /\ UNCHANGED <<db, hist, accepted, overlapped, sessionSeq, svcVars>>

\* The cursor requests of getGameSessions(limit), all in one readonly
\* transaction.  getStatistics goes on to getCompletedCases.
SessionsGet(i, ok) ==
  /\ i \in 1..Len(calls) /\ calls[i].op = "getGameSessions"
  /\ TxMayRun(i)
  /\ LET c == calls[i]
         sessions == GetGameSessions(db.gameSessions, c.limit) IN
     IF c.stats
     THEN IF ok
          THEN /\ calls' = Without(i) \o
                    << [ ReadCall("getCompletedCases", TRUE, 0) EXCEPT !.read = sessions ] >>
               /\ lastOp' = Op("getStatistics", "read")
               /\ UNCHANGED result
          ELSE /\ calls' = Without(i)
               /\ lastOp' = Op("getStatistics", "caught")
               /\ result' = StatisticsFailure("getGameSessions")
     ELSE /\ calls' = Without(i)
          /\ lastOp' = Op("getGameSessions", IF ok THEN "resolved" ELSE "rejected")
          /\ result' = IF ok THEN Resolved("getGameSessions", sessions)
                             ELSE Rejected("getGameSessions")
  /\ UNCHANGED <<db, hist, accepted, overlapped, sessionSeq, svcVars>>

\* The getAll request of getCompletedCases.  getStatistics returns its summary.
CasesGet(i, ok) ==
  /\ i \in 1..Len(calls) /\ calls[i].op = "getCompletedCases"
  /\ TxMayRun(i)
  /\ LET c == calls[i]
         completedCases == GetCompletedCases(db.caseCompletion) IN
     /\ calls' = Without(i)
     /\ IF c.stats
        THEN IF ok
             THEN /\ lastOp' = Op("getStatistics", "computed")
                  /\ result' = Resolved("getStatistics", Statistics(c.read, completedCases))
             ELSE /\ lastOp' = Op("getStatistics", "caught")
                  /\ result' = StatisticsFailure("getCompletedCases")
        ELSE /\ lastOp' = Op("getCompletedCases", IF ok THEN "resolved" ELSE "rejected")
             /\ result' = IF ok THEN Resolved("getCompletedCases", completedCases)
                                ELSE Rejected("getCompletedCases")
  /\ UNCHANGED <<db, hist, accepted, overlapped, sessionSeq, svcVars>>

\* init(): request.onsuccess sets this.db to the new connection,
\* request.onerror rejects; without window.indexedDB init throws.  A service
\* call that waited for its init creates its transaction now, and a call
\* whose init failed rejects (getStatistics catches that).
OpenDone(i, ok) ==
  /\ i \in 1..Len(calls) /\ calls[i].step = -1
  /\ LET c == calls[i] IN
     IF ok /\ supported
     THEN /\ conn' = conn + 1
          /\ calls' = IF c.op = "init" THEN Without(i)
                      ELSE Without(i) \o << [ c EXCEPT !.step = 0 ] >>
          /\ lastOp' = Op("open", "resolved")
          /\ UNCHANGED <<accepted, result>>
     ELSE /\ calls' = Without(i)
          /\ lastOp' = IF c.stats THEN Op("getStatistics", "caught")
                       ELSE Op("open", "rejected")
          /\ accepted' = IF c.op = "markCaseCompleted"
                         THEN [ accepted EXCEPT ![c.caseId] = @ - 1 ] ELSE accepted
          /\ result' = IF c.stats THEN StatisticsFailure("init")
                       ELSE IF ReadOnly(c.op) THEN Rejected(c.op) ELSE result
          /\ UNCHANGED conn
  /\ UNCHANGED <<db, hist, overlapped, sessionSeq, opens, supported>>

\* init() called by initializeApp or any other caller: indexedDB.open is
\* requested whether or not a connection is open already.
CallInit ==
  /\ Len(calls) < MaxCalls
  /\ ~supported \/ opens < MaxOpens
  /\ calls' = Append(calls, [ Call("init", FALSE, Null, 0, NoSession, NoUser) EXCEPT !.step = -1 ])
  /\ opens' = IF supported THEN opens + 1 ELSE opens
  /\ lastOp' = Op("init", "called")
  /\ result' = NoResult
  /\ UNCHANGED <<db, hist, accepted, overlapped, sessionSeq, conn, supported>>

\* saveGameSession(session) called on its own.
CallSaveGameSession(session) ==
  /\ Len(calls) < MaxCalls
  /\ calls' = Append(calls, Placed(Call("saveGameSession", FALSE, session.caseId, session.score,
                                          session, NoUser)))
  /\ Placing
  /\ lastOp' = Op("saveGameSession", [ outcome |-> "called", id |-> session.id ])
  /\ UNCHANGED <<db, hist, accepted, overlapped, sessionSeq>>

\* updateUserData(userData) called on its own.
CallUpdateUserData(userData) ==
  /\ Len(calls) < MaxCalls
  /\ calls' = Append(calls, Placed(Call("updateUserData", FALSE, Null, 0, NoSession, userData)))
  /\ Placing
  /\ lastOp' = Op("updateUserData", "called")
  /\ UNCHANGED <<db, hist, accepted, overlapped, sessionSeq>>

\* getUserData(), getGameSessions(limit) or getCompletedCases() called on its own.
CallRead(op, limit) ==
  /\ Len(calls) < MaxCalls
  /\ calls' = Append(calls, Placed(ReadCall(op, FALSE, limit)))
  /\ Placing
  /\ lastOp' = Op(op, "called")
  /\ UNCHANGED <<db, hist, accepted, overlapped, sessionSeq>>

\* getStatistics(), up to its first await: this.getUserData().
CallGetStatistics ==
  /\ Len(calls) < MaxCalls
  /\ calls' = Append(calls, Placed(ReadCall("getUserData", TRUE, 0)))
  /\ Placing
  /\ lastOp' = Op("getStatistics", "called")
  /\ UNCHANGED <<db, hist, accepted, overlapped, sessionSeq>>

\* store.put(userData) of updateUserData (keyPath id: one record, 'player1').
UserPut(i, ok) ==
  /\ i \in 1..Len(calls) /\ calls[i].op = "updateUserData"
  /\ TxMayRun(i)
  /\ calls' = Without(i)
  /\ IF ok
     THEN /\ db' = [ db EXCEPT !.userData = {calls[i].user} ]
          /\ lastOp' = Op("updateUserData", "resolved")
     ELSE /\ lastOp' = Op("updateUserData", "rejected")
          /\ UNCHANGED db
  /\ UNCHANGED <<hist, accepted, overlapped, sessionSeq, svcVars, result>>

\* One request of some transaction succeeds or fails.
StoreStep ==
  \E i \in 1..Len(calls), ok \in BOOLEAN :
    \/ MarkGet(i, ok)
    \/ MarkPut(i, ok)
    \/ ClearRequest(i, ok)
    \/ SaveAdd(i, ok)
    \/ UserGet(i, ok)
    \/ UserPut(i, ok)
    \/ SessionsGet(i, ok)
    \/ CasesGet(i, ok)
    \/ OpenDone(i, ok)

StoreInit ==
  /\ db = EmptyDb
  /\ calls = <<>>
  /\ hist = [ id \in CaseIds |-> <<>> ]
  /\ accepted = [ id \in CaseIds |-> 0 ]
  /\ overlapped = {}
  /\ sessionSeq = 0
  /\ result = NoResult

\* initializeApp has run and init succeeded: one connection is open.
Opened == conn = 1 /\ opens = 1 /\ supported = TRUE /\ initialized = TRUE

AppInit ==
  /\ finalized = [ sid |-> 0, score |-> 0, diagnosis |-> Null, treatments |-> <<>> ]
  /\ currentScreen = "menu"
  /\ selectedCase = Null
  /\ formDiagnosis = ""
  /\ started = 0

EngineInit ==
  /\ gameState = InitialGameState
  /\ rendered = InitialGameState
  /\ pendingTests = <<>>
  /\ unrendered = 0
  /\ lastOp = Op("init", Null)

EngineNext ==
  \/ \E c \in CaseIds : StartNewCase(c) /\ UNCHANGED <<storeVars, appVars>>
  \/ \E t \in TestIds : RunDiagnosticTest(t) /\ UNCHANGED <<storeVars, appVars>>
  \/ RunDiagnosticTestResume /\ UNCHANGED <<storeVars, appVars>>
  \/ \E d \in Diagnoses : SubmitDiagnosis(d) /\ UNCHANGED <<storeVars, appVars>>
  \/ \E ts \in TreatmentLists : SubmitTreatments(ts) /\ UNCHANGED <<storeVars, appVars>>
  \/ NextPhase /\ UNCHANGED <<storeVars, appVars>>
  \/ Render /\ UNCHANGED <<storeVars, appVars>>

(* ------------------------------------------------------------------ *)
(* VeterinaryGame: the component that shows the screens, drives the    *)
(* engine and persists a completed game.  A click handler runs to its  *)
(* end and React renders before the next event, so a handler's last    *)
(* effect is the render; the update runDiagnosticTest makes after its  *)
(* await is rendered later, by Render.                                 *)
(* ------------------------------------------------------------------ *)

\* budget={1000} of DiagnosticToolsPanel
Budget == 1000

\* What DiagnosisTreatmentInterface lets the learner submit (canSubmit: a
\* diagnosis and at least one treatment, each checkbox once).
FormTreatmentLists == { <<"x">>, <<"a", "b">> }

\* The cases the learner picks from in a run of the application.
OfferedCaseIds == {"c1"}

\* The game screens are rendered for a bound case only.
GameShown(phase) ==
  /\ currentScreen = "game"
  /\ rendered.currentCase # Null
  /\ rendered.gamePhase = phase

Rerender == rendered' = gameState' /\ unrendered' = 0

\* handleStartRandomCase (menu) and handleStartSelectedCase (case list)
HandleStartCase(c) ==
  /\ currentScreen \in {"menu", "caseList"}
  /\ started < MaxPlays
  /\ started' = started + 1
  /\ selectedCase' = c
  /\ gameState' = NewCaseState(gameState, c)
  /\ currentScreen' = "game"
  /\ lastOp' = Op("startNewCase", c)
  /\ UNCHANGED <<pendingTests, storeVars, finalized, formDiagnosis, initialized>>
  /\ Rerender

\* Browse Cases, Statistics, onViewStats
ShowScreen(screen) ==
  /\ \/ currentScreen = "menu" /\ screen \in {"caseList", "statistics"}
     \/ currentScreen = "caseList" /\ screen = "statistics"
  /\ currentScreen' = screen
  /\ lastOp' = Op("show", screen)
  /\ UNCHANGED <<gameState, pendingTests, storeVars, finalized, selectedCase, formDiagnosis,
                 started, initialized>>
  /\ Rerender

\* A handleBackToMenu that records the unfinished game.
HandleBackToMenuSaving ==
  /\ \/ currentScreen = "statistics"
     \/ currentScreen = "game" /\ rendered.currentCase # Null
  /\ currentScreen' = "menu"
  /\ selectedCase' = Null
  /\ lastOp' = Op("backToMenu", Null)
  /\ IF selectedCase = Null
     THEN UNCHANGED storeVars
     ELSE HandleGameComplete(selectedCase, rendered.score, rendered.timeElapsed,
                             rendered, formDiagnosis)
  /\ UNCHANGED <<gameState, pendingTests, finalized, formDiagnosis, started, initialized>>
  /\ Rerender

\* handleBackToMenu: Back to Menu of every game screen, onNewCase of the
\* results screen, onBackToMenu of the statistics screen.
HandleBackToMenu ==
  /\ \/ currentScreen = "statistics"
     \/ currentScreen = "game" /\ rendered.currentCase # Null
  /\ currentScreen' = "menu"
  /\ selectedCase' = Null
  /\ lastOp' = Op("backToMenu", Null)
  /\ UNCHANGED <<gameState, pendingTests, storeVars, finalized, formDiagnosis, started,
                 initialized>>
  /\ Rerender

\* CaseIntakeScreen onProceed={nextPhase}
ClickProceed ==
  /\ GameShown("intake")
  /\ gameState' = NextPhaseState(gameState)
  /\ lastOp' = Op("nextPhase", Null)
  /\ UNCHANGED <<pendingTests, storeVars, appVars>>
  /\ Rerender

\* totalCost of DiagnosticToolsPanel
RECURSIVE TotalCost(_)
TotalCost(completedTests) ==
  IF completedTests = <<>> THEN 0
  ELSE TestById(Head(completedTests)).cost + TotalCost(Tail(completedTests))

\* Run Test of DiagnosticToolsPanel: onRunTest={runDiagnosticTest}; the
\* button is disabled for a test the panel was rendered with as completed or
\* not affordable.  runDiagnosticTest resumes after its await before any
\* other event; the update it queues is rendered later.
ClickRunTestUpTo(testId, most) ==
  /\ GameShown("diagnosis")
  /\ ~Includes(rendered.completedTests, testId)
  /\ TotalCost(rendered.completedTests) + TestById(testId).cost <= Budget
  /\ Len(gameState.completedTests) < most
  /\ gameState' = TestDoneState(gameState, testId)
  /\ unrendered' = unrendered + 1
  /\ lastOp' = Op("runDiagnosticTest", testId)
  /\ UNCHANGED <<rendered, pendingTests, storeVars, appVars>>

ClickRunTest(testId) == ClickRunTestUpTo(testId, MaxTests)

\* Make Diagnosis: onClick={nextPhase}, shown once a test is completed.
ClickMakeDiagnosis ==
  /\ GameShown("diagnosis")
  /\ Len(rendered.completedTests) > 0
  /\ gameState' = NextPhaseState(gameState)
  /\ lastOp' = Op("nextPhase", Null)
  /\ UNCHANGED <<pendingTests, storeVars, appVars>>
  /\ Rerender

\* onSubmit of DiagnosisTreatmentInterface: setSelectedDiagnosis,
\* submitTreatments, then handleGameComplete(gameState.score,
\* gameState.timeElapsed) with the gameState of the render the form is in.
ClickSubmit(diagnosis, treatments) ==
  /\ GameShown("treatment")
  /\ formDiagnosis' = diagnosis
  /\ gameState' = TreatmentsState(gameState, treatments, TotalScore(rendered, treatments))
  /\ IF selectedCase = Null
     THEN UNCHANGED storeVars
     ELSE HandleGameComplete(selectedCase, rendered.score, rendered.timeElapsed,
                             rendered, formDiagnosis)
  /\ finalized' = [ sid |-> sessionSeq + 1, score |-> gameState'.score,
                     diagnosis |-> diagnosis, treatments |-> treatments ]
  /\ lastOp' = Op("submitTreatments", treatments)
  /\ UNCHANGED <<pendingTests, currentScreen, selectedCase, started, initialized>>
  /\ Rerender

\* clearData of StatisticsScreen, confirmed: clearAllData is called.
ClickClearData ==
  /\ currentScreen = "statistics"
  /\ CallClearAllData
  /\ UNCHANGED <<engineVars, appVars>>

Init == EngineInit /\ StoreInit /\ Opened /\ AppInit

Next ==
  \/ \E c \in OfferedCaseIds : HandleStartCase(c)
  \/ \E screen \in {"caseList", "statistics"} : ShowScreen(screen)
  \/ HandleBackToMenu
  \/ ClickProceed
  \/ \E t \in TestIds : ClickRunTest(t)
  \/ ClickMakeDiagnosis
  \/ \E d \in Diagnoses, ts \in FormTreatmentLists : ClickSubmit(d, ts)
  \/ ClickClearData
  \/ Render /\ UNCHANGED <<storeVars, appVars>>
  \/ StoreStep /\ UNCHANGED <<engineVars, appVars>>

\* The application: the learner's clicks, the renders and the storage steps.
Spec == Init /\ [][Next]_vars

\* An initializeApp that shows the screens only when init succeeded.
InitializedOnSuccess(ok) == ok

\* initializeApp: setInitialized(true) after init resolved, and in the catch.
InitializedAfter(ok) == TRUE

\* VeterinaryGame mounted in a browser without IndexedDB: the effect has
\* called initializeApp, whose init() has not settled yet.
InitMounting ==
  /\ EngineInit /\ AppInit
  /\ db = EmptyDb
  /\ supported = FALSE
  /\ conn = 0
  /\ opens = 0
  /\ calls = << [ Call("init", FALSE, Null, 0, NoSession, NoUser) EXCEPT !.step = -1 ] >>
  /\ hist = [ id \in CaseIds |-> <<>> ]
  /\ accepted = [ id \in CaseIds |-> 0 ]
  /\ overlapped = {}
  /\ sessionSeq = 0
  /\ result = NoResult
  /\ initialized = FALSE

\* initializeApp continues when its init() settles either way.
InitializeApp(ok) ==
  /\ ~initialized
  /\ calls # <<>> /\ calls[1].op = "init"
  /\ OpenDone(1, ok)
  /\ initialized' = InitializedAfter(ok /\ supported)
  /\ UNCHANGED <<engineVars, finalized, currentScreen, selectedCase, formDiagnosis, started>>

\* Until initialized the component renders the loading screen only.
MountedNext ==
  \/ \E ok \in BOOLEAN : InitializeApp(ok)
  \/ \E c \in OfferedCaseIds : initialized /\ HandleStartCase(c)
  \/ \E screen \in {"caseList", "statistics"} : initialized /\ ShowScreen(screen)
  \/ initialized /\ HandleBackToMenu
  \/ initialized /\ ClickProceed
  \/ \E t \in TestIds : initialized /\ ClickRunTest(t)
  \/ initialized /\ ClickMakeDiagnosis
  \/ \E d \in Diagnoses, ts \in FormTreatmentLists : initialized /\ ClickSubmit(d, ts)
  \/ initialized /\ ClickClearData
  \/ initialized /\ Render /\ UNCHANGED <<storeVars, appVars>>
  \/ initialized /\ StoreStep /\ UNCHANGED <<engineVars, appVars>>

\* The application from its mount where storage is unavailable: init and
\* every service call reject.
SpecOffline == InitMounting /\ [][MountedNext]_vars

\* The learner on the game screens up to the diagnosis form: starting a
\* case, Proceed, Run Test clicks (a click can come before the update of an
\* earlier click is rendered), Make Diagnosis, Back to Menu.
PanelNext ==
  \/ \E c \in CaseIds : HandleStartCase(c)
  \/ \E screen \in {"caseList", "statistics"} : ShowScreen(screen)
  \/ HandleBackToMenu
  \/ ClickProceed
  \/ \E t \in TestIds : ClickRunTestUpTo(t, MaxClicks)
  \/ ClickMakeDiagnosis
  \/ Render /\ UNCHANGED <<storeVars, appVars>>

SpecPanel == Init /\ [][PanelNext]_vars

\* The hook driven through its five operations by an arbitrary caller.
SpecEngine == Init /\ [][EngineNext]_vars

\* The hook driven by a caller that runs up to MaxRuns tests on case c1, in
\* any phase, before and after a diagnosis and a treatment plan are submitted.
TestsNext ==
  \/ StartNewCase("c1") /\ UNCHANGED <<storeVars, appVars>>
  \/ \E t \in TestIds : RunDiagnosticTestUpTo(t, MaxRuns) /\ UNCHANGED <<storeVars, appVars>>
  \/ RunDiagnosticTestResume /\ UNCHANGED <<storeVars, appVars>>
  \/ SubmitDiagnosis("dx1") /\ UNCHANGED <<storeVars, appVars>>
  \/ SubmitTreatments(<<"a">>) /\ UNCHANGED <<storeVars, appVars>>
  \/ NextPhase /\ UNCHANGED <<storeVars, appVars>>
  \/ Render /\ UNCHANGED <<storeVars, appVars>>

SpecTests == Init /\ [][TestsNext]_vars

\* The inputs of the score: the elapsed times, the diagnoses held (null when
\* none was submitted) and the treatment lists submitTreatments is given.
ScoreTimes == {0, 9, 10, 500, 990, 1000}

ScoreDiagnoses == {Null, "dx1", "dx2"}

ScoreTreatments == {"a", "b", "x"}

ScoreLists ==
  {<<>>} \cup { <<t>> : t \in ScoreTreatments }
         \cup { <<t, u>> : t \in ScoreTreatments, u \in ScoreTreatments }

\* The hook with a case bound, a diagnosis held or not, and time elapsed.
InitScore ==
  /\ \E c \in CaseIds, d \in ScoreDiagnoses, t \in ScoreTimes :
       gameState = [ NewCaseState(InitialGameState, c) EXCEPT
                       !.selectedDiagnosis = d, !.timeElapsed = t,
                       !.gamePhase = "treatment" ]
  /\ rendered = gameState
  /\ pendingTests = <<>>
  /\ unrendered = 0
  /\ lastOp = Op("init", Null)
  /\ StoreInit /\ Opened /\ AppInit

\* submitTreatments called with one list after another.
ScoreNext ==
  \/ \E ts \in ScoreLists : SubmitTreatments(ts) /\ UNCHANGED <<storeVars, appVars>>
  \/ Render /\ UNCHANGED <<storeVars, appVars>>

SpecScore == InitScore /\ [][ScoreNext]_vars

\* markCaseCompleted and clearAllData called by an arbitrary caller, any
\* number of calls in flight at once.
MarkNext ==
  \/ \E id \in CaseIds, sc \in Scores :
       CallMarkCaseCompleted(id, sc) /\ UNCHANGED <<engineVars, appVars>>
  \/ CallClearAllData /\ UNCHANGED <<engineVars, appVars>>
  \/ StoreStep /\ UNCHANGED <<engineVars, appVars>>

SpecMark == Init /\ [][MarkNext]_vars

\* handleGameComplete and clearAllData called by an arbitrary caller, the
\* handlers of several games overlapping.
StoreNext ==
  \/ \E id \in CaseIds, sc \in Scores :
       /\ sessionSeq < MaxGames
       /\ HandleGameComplete(id, sc, 0, rendered, formDiagnosis)
       /\ lastOp' = Op("handleGameComplete", id)
       /\ UNCHANGED <<engineVars, appVars>>
  \/ CallClearAllData /\ UNCHANGED <<engineVars, appVars>>
  \/ StoreStep /\ UNCHANGED <<engineVars, appVars>>

SpecStore == Init /\ [][StoreNext]_vars

\* The service before its first init: no connection yet.
Closed == conn = 0 /\ opens = 0 /\ supported = TRUE /\ initialized = FALSE

InitClosed == EngineInit /\ StoreInit /\ Closed /\ AppInit

\* The objects saveGameSession is given under the id: a session of case c1
\* starting at time id, one of case c2 whose startTime lies before every
\* other, and the first without its caseId, without its score, with a NaN
\* score, without its difficulty, without its startTime.
RawSessions(id) ==
  LET session == [ id |-> id, caseId |-> "c1", score |-> 40, scoreType |-> "number",
                   difficulty |-> "medium", startTime |-> id ] IN
  { session,
    [ session EXCEPT !.caseId = "c2", !.score = 100, !.difficulty = "hard", !.startTime = 0 ],
    [ session EXCEPT !.caseId = Null ],
    [ session EXCEPT !.score = 0, !.scoreType = "undefined" ],
    [ session EXCEPT !.score = 0, !.scoreType = "NaN" ],
    [ session EXCEPT !.difficulty = Null ],
    [ session EXCEPT !.startTime = -1 ] }

\* The limits getGameSessions is called with.
ReadLimits == {1, DefaultLimit}

\* A profile updateUserData is given.
PlayedProfile == UpdatedUserData(DefaultUserData, "c1", 100)

\* The caller awaits each call before it makes the next.
Idle == calls = <<>>

\* Writers that fill the store for the reads: a case is marked once.
FillNext ==
  \/ \E id \in CaseIds :
       accepted[id] = 0 /\ CallMarkCaseCompleted(id, 100)
  \/ CallUpdateUserData(PlayedProfile)
  \/ CallClearAllData

\* The service called by a caller that awaits every call: sessions of any
\* shape are saved (an id may be used again), and every read is made.
ReadNext ==
  \/ /\ Idle
     /\ \E id \in 1..Min(Len(db.gameSessions) + 1, MaxStored) :
          \E session \in RawSessions(id) : CallSaveGameSession(session)
     /\ UNCHANGED <<engineVars, appVars>>
  \/ Idle /\ FillNext /\ UNCHANGED <<engineVars, appVars>>
  \/ Idle /\ CallRead("getUserData", 0) /\ UNCHANGED <<engineVars, appVars>>
  \/ /\ Idle
     /\ \E limit \in ReadLimits : CallRead("getGameSessions", limit)
     /\ UNCHANGED <<engineVars, appVars>>
  \/ Idle /\ CallRead("getCompletedCases", 0) /\ UNCHANGED <<engineVars, appVars>>
  \/ Idle /\ CallGetStatistics /\ UNCHANGED <<engineVars, appVars>>
  \/ StoreStep /\ UNCHANGED <<engineVars, appVars>>

SpecRead == InitClosed /\ [][ReadNext]_vars

\* getStatistics on a store of up to MaxSessions sessions, of which up to
\* MaxInvalid are ones its filter drops.
StatsNext ==
  \/ /\ Idle
     /\ Len(db.gameSessions) < MaxSessions
     /\ \E session \in RawSessions(Len(db.gameSessions) + 1) :
          /\ WellFormed(session) /\ Indexed(session)
          /\ ValidSession(session)
             \/ Cardinality({ k \in 1..Len(db.gameSessions) :
                                ~ValidSession(db.gameSessions[k]) }) < MaxInvalid
          /\ CallSaveGameSession(session)
     /\ UNCHANGED <<engineVars, appVars>>
  \/ Idle /\ FillNext /\ UNCHANGED <<engineVars, appVars>>
  \/ Idle /\ CallGetStatistics /\ UNCHANGED <<engineVars, appVars>>
  \/ StoreStep /\ UNCHANGED <<engineVars, appVars>>

SpecStats == Init /\ [][StatsNext]_vars

\* Games completed one at a time (handleGameComplete is called when no call
\* is in flight), the statistics screen's getStatistics and clearAllData in
\* between; every request may fail.
SeqNext ==
  \/ /\ Idle
     /\ sessionSeq < MaxGames
     /\ \E id \in CaseIds, sc \in Scores :
          /\ HandleGameComplete(id, sc, 0, rendered, formDiagnosis)
          /\ lastOp' = Op("handleGameComplete", id)
     /\ UNCHANGED <<engineVars, appVars>>
  \/ Idle /\ CallGetStatistics /\ UNCHANGED <<engineVars, appVars>>
  \/ Idle /\ CallClearAllData /\ UNCHANGED <<engineVars, appVars>>
  \/ StoreStep /\ UNCHANGED <<engineVars, appVars>>

SpecSeq == Init /\ [][SeqNext]_vars

\* A session as saveGameSession is given it under the id, started at time id.
StoredSession(id) ==
  [ id |-> id, caseId |-> "c1", score |-> 40, scoreType |-> "number",
    difficulty |-> "medium", startTime |-> id ]

\* The content of gameSessions after StatsLimit - 1 sessions were saved, the
\* oldest or the newest of them possibly one of the other objects
\* saveGameSession is given.
FilledStores ==
  UNION { { [ k \in 1..(StatsLimit - 1) |-> IF k = p THEN odd ELSE StoredSession(k) ] :
              odd \in RawSessions(p) } :
          p \in {1, StatsLimit - 1} }

InitFilled ==
  /\ EngineInit /\ Opened /\ AppInit
  /\ \E store \in FilledStores : db = [ EmptyDb EXCEPT !.gameSessions = store ]
  /\ calls = <<>>
  /\ hist = [ id \in CaseIds |-> <<>> ]
  /\ accepted = [ id \in CaseIds |-> 0 ]
  /\ overlapped = {}
  /\ sessionSeq = 0
  /\ result = NoResult

\* getStatistics on a store that holds about StatsLimit sessions, up to
\* MaxOlder more than it reads; further sessions are saved in between.
FilledNext ==
  \/ /\ Idle
     /\ Len(db.gameSessions) < StatsLimit + MaxOlder
     /\ CallSaveGameSession(StoredSession(Len(db.gameSessions) + 1))
     /\ UNCHANGED <<engineVars, appVars>>
  \/ Idle /\ CallGetStatistics /\ UNCHANGED <<engineVars, appVars>>
  \/ StoreStep /\ UNCHANGED <<engineVars, appVars>>

SpecFilled == InitFilled /\ [][FilledNext]_vars

\* init and the read calls made by any caller, calls overlapping.
InitNext ==
  \/ CallInit /\ UNCHANGED <<engineVars, appVars>>
  \/ CallRead("getUserData", 0) /\ UNCHANGED <<engineVars, appVars>>
  \/ CallRead("getCompletedCases", 0) /\ UNCHANGED <<engineVars, appVars>>
  \/ CallGetStatistics /\ UNCHANGED <<engineVars, appVars>>
  \/ StoreStep /\ UNCHANGED <<engineVars, appVars>>

SpecInit == InitClosed /\ [][InitNext]_vars

(* ------------------------------------------------------------------ *)
(* Properties of the store (checked under SpecMark and SpecStore).     *)
(* ------------------------------------------------------------------ *)

\* The largest element of a non-empty sequence of numbers.
Largest(seq) ==
  CHOOSE m \in { seq[k] : k \in 1..Len(seq) } : \A k \in 1..Len(seq) : seq[k] <= m

\* C1: after N >= 1 resolved markCaseCompleted calls for a case id since the
\* last wipe, the stored completion record has attempts = N, scores = the N
\* submitted scores in call order and bestScore = their maximum (so attempts =
\* length(scores) and bestScore = max(scores)); with no resolved call there is
\* no record.
C1_CompletionRecord ==
  \A id \in CaseIds :
    LET stored == GetCompletion(db.caseCompletion, id) IN
    IF hist[id] = <<>>
    THEN stored = {}
    ELSE /\ Cardinality(stored) = 1
         /\ \A r \in stored :
              /\ r.attempts = Len(hist[id])
              /\ r.scores = hist[id]
              /\ r.bestScore = Largest(hist[id])
              /\ r.attempts = Len(r.scores)
              /\ r.bestScore = Largest(r.scores)

\* C1 witness: two calls for one case id resolved, the better score first.
C1_Witness ==
  \E id \in CaseIds :
    /\ hist[id] = <<100, 40>>
    /\ \E r \in db.caseCompletion : r.caseId = id /\ r.attempts = 2 /\ r.bestScore = 100

\* C2: concurrent markCaseCompleted calls lose no update.  A call that has
\* read (between its get and its put) is the oldest live call on the store and
\* the record it read is still the stored one; and once no call for a case id
\* is in flight, the record counts every call that was not rejected.
C2_NoLostUpdate ==
  /\ \A i \in 1..Len(calls) :
       (calls[i].op = "markCaseCompleted" /\ calls[i].step = 1)
       => /\ calls[i].got = GetCompletion(db.caseCompletion, calls[i].caseId)
          /\ \A j \in 1..(i - 1) : calls[j].op \notin {"markCaseCompleted", "clearAllData"}
          /\ \A j \in 1..Len(calls) :
               (j # i /\ calls[j].op = "markCaseCompleted") => calls[j].step = 0
  /\ \A id \in CaseIds :
       Marks(calls, id) = {}
       => LET stored == GetCompletion(db.caseCompletion, id) IN
          IF accepted[id] = 0 THEN stored = {}
          ELSE \E r \in stored : r.attempts = accepted[id] /\ Len(r.scores) = accepted[id]

\* C2 witness: two calls for one case id were in flight at once, both are
\* done, and the record counts both.
C2_Witness ==
  \E id \in overlapped :
    /\ Marks(calls, id) = {}
    /\ accepted[id] = 2
    /\ \E r \in db.caseCompletion : r.caseId = id /\ r.attempts = 2 /\ Len(r.scores) = 2

C11_EmptyStoreDefaults ==
  [][ (db = EmptyDb /\ result' # result /\ result'.outcome = "resolved")
      => CASE result'.call = "getUserData" ->
                /\ result'.value.id = "player1"
                /\ result'.value.completedCases = <<>>
                /\ result'.value.totalScore = 0 /\ result'.value.gamesPlayed = 0
                /\ result'.value.bestScore = 0 /\ result'.value.averageScore.num = 0
                /\ \A d \in DOMAIN result'.value.difficulty : result'.value.difficulty[d] = 0
           [] result'.call = "getCompletedCases" -> result'.value = <<>>
           [] result'.call = "getStatistics" ->
                /\ result'.value.gamesPlayed = 0 /\ result'.value.casesCompleted = 0
                /\ result'.value.averageScore.num = 0 /\ result'.value.bestScore = 0
                /\ DOMAIN result'.value.difficultyBreakdown = {}
                /\ result'.value.recentSessions = <<>>
           [] OTHER -> TRUE ]_vars

\* C11 witness: getStatistics ran its three reads on an open, empty store
\* and returned the summary it computed, all zero.
C11_Witness ==
  /\ lastOp.op = "getStatistics" /\ lastOp.arg = "computed"
  /\ db = EmptyDb /\ conn # 0
  /\ result.call = "getStatistics" /\ result.value.gamesPlayed = 0

\* C12: saveGameSession is insert-only.  A call whose session id is stored
\* already is rejected, and a rejected call leaves the store as it was; a call
\* that resolves has added its session after the stored ones, which are
\* unchanged, and has touched no other collection.
C12_InsertOnly ==
  [][ (lastOp'.op = "saveGameSession" /\ lastOp'.arg.outcome # "called")
      => LET before == db.gameSessions
             after == db'.gameSessions IN
         /\ (\E k \in 1..Len(before) : before[k].id = lastOp'.arg.id)
              => lastOp'.arg.outcome = "rejected"
         /\ lastOp'.arg.outcome = "rejected" => db' = db
         /\ lastOp'.arg.outcome = "resolved"
              => /\ Len(after) = Len(before) + 1
                 /\ SubSeq(after, 1, Len(before)) = before
                 /\ \E i \in 1..Len(calls) :
                      /\ calls[i].op = "saveGameSession"
                      /\ calls[i].session.id = lastOp'.arg.id
                      /\ after[Len(after)] = calls[i].session
                 /\ db'.userData = db.userData
                 /\ db'.caseCompletion = db.caseCompletion ]_vars

\* C12 witness: a saveGameSession call was rejected while a session of its
\* id is stored, next to another stored session.
C12_Witness ==
  /\ lastOp.op = "saveGameSession" /\ lastOp.arg.outcome = "rejected"
  /\ Len(db.gameSessions) = 2
  /\ \E k \in 1..Len(db.gameSessions) : db.gameSessions[k].id = lastOp.arg.id

\* a is newer than b: later startTime (a record without one counts as the
\* oldest), the higher id among equal ones.
Newer(a, b) == a.startTime > b.startTime \/ (a.startTime = b.startTime /\ a.id > b.id)

\* sessions is, newest first, the first `limit` of the records in eligible.
FirstNewest(sessions, eligible, limit) ==
  /\ Len(sessions) = Min(limit, Cardinality(eligible))
  /\ \A k \in 1..Len(sessions) :
       /\ sessions[k] \in eligible
       /\ \A j \in 1..(k - 1) : Newer(sessions[j], sessions[k])
       /\ \A e \in eligible :
            (\A j \in 1..Len(sessions) : sessions[j] # e) => Newer(sessions[k], e)

\* The stored sessions that have an id, a case reference and a score of type number.
StoredWellFormed ==
  { db.gameSessions[k] : k \in { j \in 1..Len(db.gameSessions) :
        /\ db.gameSessions[j].id # 0
        /\ db.gameSessions[j].caseId # Null
        /\ db.gameSessions[j].scoreType \in {"number", "NaN"} } }

\* C13 (as claimed): a getGameSessions(limit) that resolves gives, newest
\* first, the first `limit` stored sessions that are well-formed (id, case
\* reference, score of type number).
C13_FirstWellFormed ==
  [][ (lastOp'.op = "getGameSessions" /\ lastOp'.arg = "resolved")
      => \E i \in 1..Len(calls) :
           /\ calls[i].op = "getGameSessions"
           /\ FirstNewest(result'.value, StoredWellFormed, calls[i].limit) ]_vars

\* C13 (amended): a getGameSessions(limit) that resolves gives, newest first,
\* the first `limit` stored sessions that are well-formed and have a valid
\* startTime; a record without one is never returned.
C13_FirstWellFormedIndexed ==
  [][ (lastOp'.op = "getGameSessions" /\ lastOp'.arg = "resolved")
      => \E i \in 1..Len(calls) :
           /\ calls[i].op = "getGameSessions"
           /\ FirstNewest(result'.value,
                          { r \in StoredWellFormed : r.startTime >= 0 }, calls[i].limit) ]_vars

\* C13 witness: getGameSessions returned one session although a newer
\* stored record exists, which is malformed and was skipped.
C13_Witness ==
  /\ lastOp.op = "getGameSessions" /\ lastOp.arg = "resolved"
  /\ result.outcome = "resolved" /\ Len(result.value) = 1
  /\ \E k \in 1..Len(db.gameSessions) :
       /\ db.gameSessions[k] \notin StoredWellFormed
       /\ Newer(db.gameSessions[k], result.value[1])

\* The sum of the scores of the sessions at the indices given.
RECURSIVE ScoreSum(_, _)
ScoreSum(sessions, indices) ==
  IF indices = {} THEN 0
  ELSE LET k == CHOOSE j \in indices : TRUE
       IN  sessions[k].score + ScoreSum(sessions, indices \ {k})

\* summary is the projection of the specification over the sessions read
\* and the completion records stored.
IsProjection(summary, sessions, completions) ==
  LET valid == { k \in 1..Len(sessions) :
                   sessions[k].scoreType = "number" /\ sessions[k].difficulty # Null }
      validList == SelectSeq(sessions,
                     LAMBDA x : x.scoreType = "number" /\ x.difficulty # Null)
  IN  /\ summary.gamesPlayed = Cardinality(valid)
      /\ summary.casesCompleted = Cardinality({ r.caseId : r \in completions })
      /\ IF valid = {} THEN summary.averageScore.num = 0 /\ summary.bestScore = 0
         ELSE /\ summary.averageScore.num * Cardinality(valid)
                   = ScoreSum(sessions, valid) * summary.averageScore.den
              /\ summary.averageScore.den > 0
              /\ \E k \in valid : sessions[k].score = summary.bestScore
              /\ \A k \in valid : sessions[k].score <= summary.bestScore
      /\ DOMAIN summary.difficultyBreakdown = { sessions[k].difficulty : k \in valid }
      /\ \A d \in DOMAIN summary.difficultyBreakdown :
           summary.difficultyBreakdown[d]
             = Cardinality({ k \in valid : sessions[k].difficulty = d })
      /\ Len(summary.recentSessions) = Min(5, Len(validList))
      /\ \A k \in 1..Len(summary.recentSessions) : summary.recentSessions[k] = validList[k]

\* C14: the summary getStatistics computes is the projection over the valid
\* sessions (score a number that is not NaN, a difficulty) among the
\* sessions it read: their count, mean, maximum, count per difficulty and
\* first five, with the number of completed case ids.
C14_StatisticsProjection ==
  [][ (lastOp'.op = "getStatistics" /\ lastOp'.arg = "computed")
      => \E i \in 1..Len(calls) :
           /\ calls[i].op = "getCompletedCases" /\ calls[i].stats
           /\ IsProjection(result'.value, calls[i].read, db.caseCompletion) ]_vars

\* C14 witness: six valid sessions of both difficulties were read; the
\* summary counts six, lists five and counts a completed case.
C14_Witness ==
  /\ lastOp.op = "getStatistics" /\ lastOp.arg = "computed"
  /\ result.value.gamesPlayed = 6 /\ Len(result.value.recentSessions) = 5
  /\ DOMAIN result.value.difficultyBreakdown = {"medium", "hard"}
  /\ result.value.casesCompleted >= 1

\* C15: getStatistics never rejects: when opening the store or one of its
\* three reads fails it returns the all-zero, empty summary.
C15_StatisticsNeverRejects ==
  /\ [](result.call = "getStatistics" => result.outcome = "resolved")
  /\ [][ (lastOp'.op = "getStatistics" /\ lastOp'.arg = "caught")
          => /\ Len(calls') = Len(calls) - 1
             /\ result'.call = "getStatistics" /\ result'.outcome = "resolved"
             /\ result'.value.gamesPlayed = 0 /\ result'.value.casesCompleted = 0
             /\ result'.value.averageScore.num = 0 /\ result'.value.bestScore = 0
             /\ DOMAIN result'.value.difficultyBreakdown = {}
             /\ result'.value.recentSessions = <<>> ]_vars

\* C15 witness: a read of getStatistics failed on a store that holds
\* sessions and completed cases, and the caller got the zero summary.
C15_Witness ==
  /\ lastOp.op = "getStatistics" /\ lastOp.arg = "caught"
  /\ db.gameSessions # <<>> /\ db.caseCompletion # {}
  /\ result.call = "getStatistics" /\ result.value.gamesPlayed = 0

\* C16 (as claimed): once a connection is open, init is a no-op: no call,
\* alone or overlapping others, opens the database again or replaces the
\* connection.
C16_InitIdempotent ==
  [][ conn # 0 => (opens' = opens /\ conn' = conn) ]_vars

\* C21 (as claimed): every updateUserData of a game completion that
\* succeeds leaves the stored profile with gamesPlayed one higher and
\* totalScore higher by that game's score than it was stored before, also
\* when the handlers of two games overlap.
C21_ProfileUpdatedOncePerGame ==
  [][ (lastOp'.op = "updateUserData" /\ lastOp'.arg = "resolved")
      => \E i \in 1..Len(calls) :
           /\ calls[i].op = "updateUserData" /\ calls[i].user \in db'.userData
           /\ StoredUserData(db'.userData).gamesPlayed
                = StoredUserData(db.userData).gamesPlayed + 1
           /\ StoredUserData(db'.userData).totalScore
                = StoredUserData(db.userData).totalScore + calls[i].score ]_vars

\* C17: the stored profile has averageScore = totalScore / gamesPlayed
\* whenever gamesPlayed > 0 (as fractions: num * gamesPlayed = totalScore *
\* den), and its completedCases lists no case id twice.
C17_ProfileConsistent ==
  \A u \in db.userData :
    /\ u.gamesPlayed > 0
       => ( /\ u.averageScore.den > 0
            /\ u.averageScore.num * u.gamesPlayed = u.totalScore * u.averageScore.den )
    /\ \A a, b \in 1..Len(u.completedCases) :
         u.completedCases[a] = u.completedCases[b] => a = b

\* C17 witness: the same case was completed twice, with different scores,
\* and the profile counts two games and lists the case once.
C17_Witness ==
  \E u \in db.userData :
    /\ u.gamesPlayed = 2 /\ u.totalScore = 140
    /\ u.completedCases = <<"c1">>

C3_SessionIsFinalizedResult ==
  \A k \in 1..Len(db.gameSessions) :
    LET session == db.gameSessions[k] IN
    session.id = finalized.sid
    => /\ session.score = finalized.score
       /\ session.selectedDiagnosis = finalized.diagnosis
       /\ session.selectedTreatments = finalized.treatments

\* C9: nothing is persisted before a game completes.  While no treatment
\* plan has been submitted the three collections are empty and no storage
\* call is in flight; there are never more sessions than submissions; and
\* starting a case, running a test, advancing the phase, opening a screen and
\* going back to the menu neither change a collection nor place a call.
C9_NothingBeforeCompletion ==
  /\ [](sessionSeq = 0 => (db = EmptyDb /\ \A i \in 1..Len(calls) : calls[i].op = "clearAllData"))
  /\ [](Len(db.gameSessions) <= sessionSeq)
  /\ [][ lastOp'.op \in {"startNewCase", "runDiagnosticTest", "nextPhase", "show",
                          "backToMenu", "render"}
          => (db' = db /\ calls' = calls) ]_vars

\* C9 witness: a play-through was abandoned in the treatment phase, after a
\* test was run, and nothing is stored and no storage call is in flight.
C9_Witness ==
  /\ lastOp.op = "backToMenu"
  /\ gameState.gamePhase = "treatment" /\ gameState.completedTests # <<>>
  /\ currentScreen = "menu"
  /\ sessionSeq = 0 /\ db = EmptyDb /\ calls = <<>>

(* ------------------------------------------------------------------ *)
(* Properties of the engine (checked under SpecEngine).                *)
(* ------------------------------------------------------------------ *)

\* The phase that follows p in intake -> diagnosis -> treatment -> results.
PhaseAfter(p) ==
  CASE p = "intake" -> "diagnosis"
    [] p = "diagnosis" -> "treatment"
    [] p = "treatment" -> "results"
    [] OTHER -> "results"

\* C4 (as claimed): after startNewCase no call of runDiagnosticTest,
\* submitDiagnosis, submitTreatments or nextPhase moves the phase backward or
\* skips a phase: each leaves the phase where it is or moves it one step on.
C4_PhaseMovesOneStep ==
  [][ ( /\ gameState.currentCase # Null
        /\ lastOp'.op \in {"runDiagnosticTest", "testDone", "submitDiagnosis",
                            "submitTreatments", "nextPhase"} )
      => gameState'.gamePhase \in {gameState.gamePhase, PhaseAfter(gameState.gamePhase)} ]_vars

\* C5 (as claimed): submitTreatments called with a bound case and no
\* diagnosis submitted (selectedDiagnosis null, in the state and in the
\* rendered closure alike) is ignored: phase, score and selectedTreatments
\* stay as they were.
C5_NoDiagnosisIgnored ==
  [][ ( /\ lastOp'.op = "submitTreatments"
        /\ gameState.currentCase # Null /\ rendered.currentCase # Null
        /\ gameState.selectedDiagnosis = Null /\ rendered.selectedDiagnosis = Null )
      => ( /\ gameState'.gamePhase = gameState.gamePhase
           /\ gameState'.score = gameState.score
           /\ gameState'.selectedTreatments = gameState.selectedTreatments ) ]_vars

\* The scoring rule of the specification, written out independently.
ExpectedScore(caseId, diagnosis, treatments, elapsed) ==
  LET case == CaseById(caseId)
      D == IF diagnosis = case.correctDiagnosis THEN 100 ELSE 0
      K == Cardinality({ i \in 1..Len(treatments) :
                           \E j \in 1..Len(case.correctTreatments) :
                              case.correctTreatments[j] = treatments[i] })
      B == IF elapsed \div 10 >= 100 THEN 0 ELSE 100 - (elapsed \div 10)
      raw == D + 25 * K + B
  IN  IF raw > 100 THEN 100 ELSE raw

C7_CleanSlate ==
  [][ lastOp'.op = "startNewCase"
      => gameState' = [ currentCase |-> lastOp'.arg, completedTests |-> <<>>,
                        selectedDiagnosis |-> Null, selectedTreatments |-> <<>>,
                        score |-> 0, timeElapsed |-> 0, gamePhase |-> "intake" ] ]_vars

\* C7 witness: startNewCase was the one call made on a finished game (results
\* phase, tests run, time elapsed, a score) and the state is clean.
C7_Witness ==
  /\ lastOp.op = "startNewCase" /\ unrendered = 1
  /\ rendered.gamePhase = "results" /\ rendered.score > 0
  /\ rendered.completedTests # <<>> /\ rendered.timeElapsed > 0
  /\ rendered.selectedTreatments # <<>>
  /\ gameState.currentCase = lastOp.arg /\ gameState.timeElapsed = 0
  /\ gameState.gamePhase = "intake"

\* C8: nextPhase moves the phase exactly one step along intake, diagnosis,
\* treatment, results and changes no other field; in results it leaves the
\* whole state unchanged.
C8_NextPhaseOneStep ==
  [][ lastOp'.op = "nextPhase"
      => /\ gameState' = [ gameState EXCEPT !.gamePhase = PhaseAfter(@) ]
         /\ (gameState.gamePhase = "results" => gameState' = gameState) ]_vars

\* C8 witness: nextPhase was the one call made since a render in the results
\* phase, and the state is what that render saw.
C8_Witness ==
  /\ lastOp.op = "nextPhase" /\ unrendered = 1
  /\ rendered.gamePhase = "results" /\ rendered.score > 0
  /\ gameState = rendered

C22_RunTestAppendsOne ==
  [][ /\ (lastOp'.op = "runDiagnosticTest" /\ rendered.currentCase = Null)
           => (gameState' = gameState /\ pendingTests' = pendingTests)
      /\ (lastOp'.op = "runDiagnosticTest" /\ rendered.currentCase # Null)
           => (gameState' = gameState /\ Len(pendingTests') = Len(pendingTests) + 1)
      /\ lastOp'.op = "testDone"
           => \E t \in DiagnosticTests :
                /\ pendingTests # <<>> /\ Head(pendingTests).test = t.id
                /\ Len(pendingTests') = Len(pendingTests) - 1
                /\ Len(gameState'.completedTests) = Len(gameState.completedTests) + 1
                /\ SubSeq(gameState'.completedTests, 1, Len(gameState.completedTests))
                     = gameState.completedTests
                /\ gameState'.completedTests[Len(gameState'.completedTests)] = t.id
                /\ gameState'.timeElapsed = gameState.timeElapsed + t.timeRequired
                /\ gameState'.currentCase = gameState.currentCase
                /\ gameState'.gamePhase = gameState.gamePhase
                /\ gameState'.selectedDiagnosis = gameState.selectedDiagnosis
                /\ gameState'.selectedTreatments = gameState.selectedTreatments
                /\ gameState'.score = gameState.score ]_vars

\* C22 witness: test t2 (cost 700 of a budget of 1000) was run twice on the
\* case, the second time in the results phase: two results, its time twice.
C22_Witness ==
  /\ lastOp.op = "testDone"
  /\ gameState.completedTests = <<"t2", "t2">>
  /\ gameState.timeElapsed = 2000
  /\ gameState.gamePhase = "results" /\ gameState.selectedTreatments = <<"a">>

\* list is base with further treatments added at its end, all of them in
\* allowed.
Extends(list, base, allowed) ==
  /\ Len(list) >= Len(base)
  /\ SubSeq(list, 1, Len(base)) = base
  /\ \A k \in (Len(base) + 1)..Len(list) : list[k] \in allowed

\* The treatments of the model that are in, and not in, the case's correct set.
CorrectOf(caseId) ==
  { CaseById(caseId).correctTreatments[k] :
      k \in 1..Len(CaseById(caseId).correctTreatments) }

\* C23: for the same case, diagnosis and elapsed time, a submitTreatments
\* whose list is the previous list with treatments added that are not in the
\* case's correctTreatments computes the same score, and one whose list has
\* any treatments added computes a score that is not lower.
C23_WrongTreatmentsNotPenalized ==
  [][ (/\ lastOp'.op = "submitTreatments" /\ lastOp.op \in {"submitTreatments", "render"}
       /\ gameState.gamePhase = "results")
      => LET old == gameState.selectedTreatments
             new == gameState'.selectedTreatments
         IN  /\ Extends(new, old, ScoreTreatments \ CorrectOf(gameState.currentCase))
                  => gameState'.score = gameState.score
             /\ Extends(new, old, ScoreTreatments)
                  => gameState'.score >= gameState.score ]_vars

\* C23 witness: with a wrong diagnosis and a time bonus of 50, the list
\* [a, x], submitted second in a row, scores 75: 25 for a, nothing off for x.
C23_Witness ==
  /\ lastOp.op = "submitTreatments"
  /\ gameState.currentCase = "c1" /\ gameState.selectedDiagnosis = "dx2"
  /\ gameState.timeElapsed = 500
  /\ gameState.selectedTreatments = <<"a", "x">> /\ gameState.score = 75
  /\ unrendered = 2

\* C29: a submitTreatments on a bound case whose selectedDiagnosis is the
\* case's correctDiagnosis gives score 100 whatever the treatments and the
\* elapsed time, and so does one with timeElapsed below 10 whatever the
\* diagnosis and treatments; a score below 100 has a wrong or missing
\* diagnosis and timeElapsed of 10 or more.
C29_FullScoreConditions ==
  [][ (lastOp'.op = "submitTreatments" /\ rendered.currentCase # Null)
      => LET case == CaseById(rendered.currentCase) IN
         /\ rendered.selectedDiagnosis = case.correctDiagnosis => gameState'.score = 100
         /\ rendered.timeElapsed < 10 => gameState'.score = 100
         /\ gameState'.score < 100
              => /\ rendered.selectedDiagnosis # case.correctDiagnosis
                 /\ rendered.timeElapsed >= 10 ]_vars

\* C29 witness: the correct diagnosis, no correct treatment and no time
\* bonus left give 100; (the same list with a wrong diagnosis gives 0).
C29_Witness ==
  /\ lastOp.op = "submitTreatments"
  /\ gameState.currentCase = "c1" /\ gameState.selectedDiagnosis = "dx1"
  /\ gameState.timeElapsed = 1000 /\ gameState.selectedTreatments = <<"x">>
  /\ gameState.score = 100

\* C26 (as claimed): whenever a case is in the results phase, its score is
\* the scoring formula applied to the state's own selectedDiagnosis,
\* selectedTreatments and timeElapsed.
C26_ResultsScoreIsOwnFormula ==
  (gameState.gamePhase = "results" /\ gameState.currentCase # Null)
    => gameState.score = TotalScore(gameState, gameState.selectedTreatments)

\* C25 (as claimed): when the form is submitted, the diagnosis the learner
\* selected in it is the engine's selectedDiagnosis, and the score computed
\* is 100 when that diagnosis is the case's correctDiagnosis.
C25_FormDiagnosisIsScored ==
  [][ lastOp'.op = "submitTreatments"
      => /\ gameState'.selectedDiagnosis = formDiagnosis'
         /\ formDiagnosis' = CaseById(gameState'.currentCase).correctDiagnosis
              => gameState'.score = 100 ]_vars

\* C27 (as claimed): with tests run through the Run Test buttons only, no
\* test id occurs twice in completedTests and the completed tests cost no
\* more than the budget together.
C27_PanelKeepsBudgetAndUniqueness ==
  /\ \A i, j \in 1..Len(gameState.completedTests) :
       gameState.completedTests[i] = gameState.completedTests[j] => i = j
  /\ TotalCost(gameState.completedTests) <= Budget

\* C19 (as claimed): runDiagnosticTest is atomic with respect to the other
\* engine operations: when its result is appended and its time added, the
\* case bound is still the one its guard saw.
C19_TestLandsInItsCase ==
  [][ lastOp'.op = "testDone" => gameState.currentCase = lastOp'.arg ]_vars

(* ------------------------------------------------------------------ *)
(* Properties of the three stores together (checked under SpecSeq).    *)
(* ------------------------------------------------------------------ *)

\* The step is the failure of a stage of handleGameComplete that comes
\* after its saveGameSession.
LaterStageFails ==
  /\ lastOp'.op \in {"markCaseCompleted", "getUserData", "updateUserData"}
  /\ lastOp'.arg = "rejected"
  /\ \E i \in 1..Len(calls) : calls[i].game

\* C24: when the completion upsert or the profile read/update of a game
\* completion fails after its session was appended, the session stays
\* stored and the profile is left as it was, so that more sessions are
\* stored than the profile's gamesPlayed; a getStatistics that succeeds
\* returns the number of stored sessions as gamesPlayed.
C24_GamesPlayedDiverge ==
  [][ /\ LaterStageFails
         => /\ \E i \in 1..Len(calls) :
                  \E k \in 1..Len(db'.gameSessions) :
                    /\ db'.gameSessions[k].id = sessionSeq
                    /\ db'.gameSessions[k].caseId = calls[i].caseId
            /\ db'.userData = db.userData
            /\ Len(db'.gameSessions) > StoredUserData(db'.userData).gamesPlayed
      /\ (lastOp'.op = "getStatistics" /\ lastOp'.arg = "computed")
         => result'.value.gamesPlayed = Len(db.gameSessions) ]_vars

\* Two games were completed, the profile update of one of them was lost, and
\* getStatistics has returned 2 games played while the profile holds 1.
C24_Witness ==
  /\ lastOp.op = "getStatistics" /\ lastOp.arg = "computed"
  /\ result.value.gamesPlayed = 2
  /\ StoredUserData(db.userData).gamesPlayed = 1
  /\ Len(db.gameSessions) = 2

\* The sum of the attempts of the completion records.
RECURSIVE SumAttempts(_)
SumAttempts(records) ==
  IF records = {} THEN 0
  ELSE LET r == CHOOSE x \in records : TRUE
       IN  r.attempts + SumAttempts(records \ {r})

\* The calls of game completions among cs that are at one of the stages ops.
Pending(cs, ops) == { i \in 1..Len(cs) : cs[i].game /\ cs[i].op \in ops }

\* The three stores agree up to the completions in flight: a completion past
\* its saveGameSession has its session stored, one past its
\* markCaseCompleted has its attempt recorded, and neither is in the profile
\* yet.
AgreeUpTo(d, cs) ==
  LET profile == StoredUserData(d.userData)
      saved == Pending(cs, {"markCaseCompleted", "getUserData", "updateUserData"})
      marked == Pending(cs, {"getUserData", "updateUserData"})
      completedCases == GetCompletedCases(d.caseCompletion)
  IN  /\ Len(d.gameSessions) = profile.gamesPlayed + Cardinality(saved)
      /\ SumAttempts(d.caseCompletion) = profile.gamesPlayed + Cardinality(marked)
      /\ SumScores(d.gameSessions) = profile.totalScore + ScoreSum(cs, saved)
      /\ { completedCases[k] : k \in 1..Len(completedCases) }
           = { profile.completedCases[k] : k \in 1..Len(profile.completedCases) }
             \cup { cs[i].caseId : i \in marked }

\* The three stores agree: as many sessions as the profile's gamesPlayed and
\* as attempts recorded, totalScore the sum of the session scores, and the
\* profile's completed cases those getCompletedCases returns.
Agree(d) == AgreeUpTo(d, <<>>)

\* The step is a request of a game completion that fails.
CompletionStepFails ==
  \/ /\ lastOp'.op \in {"markCaseCompleted", "getUserData", "updateUserData"}
     /\ lastOp'.arg = "rejected"
  \/ /\ lastOp'.op = "saveGameSession"
     /\ lastOp'.arg.outcome = "rejected"

\* C28: with completions run one at a time, the three stores agree at the
\* start and after a clearAllData that resolved, and every step of a
\* completion that does not fail keeps them in agreement (up to the stages
\* the completion in flight has passed); with no call in flight that is:
\* #sessions = profile gamesPlayed = sum of attempts, totalScore = sum of
\* the session scores, set of profile completedCases = getCompletedCases().
C28_CollectionsAgree ==
  /\ Agree(db)
  /\ [][ /\ (AgreeUpTo(db, calls) /\ ~CompletionStepFails) => AgreeUpTo(db', calls')
         /\ (lastOp'.op = "clearAllData" /\ lastOp'.arg.outcome = "resolved") => Agree(db') ]_vars

\* Case c1 was completed twice with every step succeeding: two sessions, one
\* completion record of two attempts, a profile of two games and total 140.
C28_Witness ==
  /\ Idle
  /\ lastOp.op = "updateUserData" /\ lastOp.arg = "resolved"
  /\ Agree(db)
  /\ Len(db.gameSessions) = 2
  /\ StoredUserData(db.userData).totalScore = 140
  /\ \E r \in db.caseCompletion : r.caseId = "c1" /\ r.attempts = 2

(* ------------------------------------------------------------------ *)
(* Properties of getStatistics on a full store (checked under          *)
(* SpecFilled).                                                        *)
(* ------------------------------------------------------------------ *)

\* The stored records getStatistics' read can return: they pass the shape
\* check of getGameSessions and have a startTime.
Eligible == { r \in StoredWellFormed : r.startTime >= 0 }

\* The StatsLimit newest of them.
NewestEligible ==
  { r \in Eligible : Cardinality({ o \in Eligible : Newer(o, r) }) < StatsLimit }

\* Those of the newest that have a score that is a number other than NaN and
\* a difficulty label.
NewestCounted ==
  { r \in NewestEligible : r.scoreType = "number" /\ r.difficulty # Null }

\* C30: the gamesPlayed a getStatistics returns is the number of valid
\* sessions among the 100 newest stored records that pass the shape check:
\* it is at most 100, older sessions are not counted, and every record
\* among the 100 that has no difficulty label or a NaN score takes one of
\* the 100 places without being counted.
C30_CountsNewestHundred ==
  [][ (lastOp'.op = "getStatistics" /\ lastOp'.arg = "computed")
      => /\ result'.value.gamesPlayed = Cardinality(NewestCounted)
         /\ result'.value.gamesPlayed <= 100
         /\ result'.value.gamesPlayed
              <= 100 - Cardinality(NewestEligible \ NewestCounted) ]_vars

\* 101 sessions are stored, 100 of them valid; one of the 100 newest has a
\* NaN score or no difficulty label, and getStatistics has returned 99: the
\* oldest session, a valid one, is not counted.
C30_Witness ==
  /\ lastOp.op = "getStatistics" /\ lastOp.arg = "computed"
  /\ Len(db.gameSessions) = 101
  /\ result.value.gamesPlayed = 99
  /\ db.gameSessions[1] = StoredSession(1)
  /\ \E k \in 2..101 :
       /\ db.gameSessions[k].scoreType = "NaN" \/ db.gameSessions[k].difficulty = Null
       /\ db.gameSessions[k] \in NewestEligible

====
